---- MODULE Spec2Model ----
(***************************************************************************)
(* A model of chwordlebot.cpp: the dictionary loader (WordCollection's     *)
(* constructor), the guess selection (WordCollection::bestWord), the       *)
(* derivation of constraints from a guess and its feedback, the constraint *)
(* ledger (ConstraintCollection) and the interaction loop of main.         *)
(*                                                                         *)
(* Characters are their ASCII codes, so that std::islower, std::toupper,   *)
(* std::isalpha and the comparisons with 'A', 'Z', 'W', 'Y', 'G' are the   *)
(* computations the code performs.  A std::string is a sequence of codes;  *)
(* the code's 0-based index i is element i + 1 of the sequence.            *)
(* Assertions are enabled (the file includes <cassert> and never defines   *)
(* NDEBUG): a failed assert ends the process, and assertFailed records the *)
(* source line of the assertion that failed.                               *)
(***************************************************************************)
EXTENDS Integers, Sequences, FiniteSets, TLC

\* ------------------------------------------------------------ constants

WORD_LENGTH == 5

\* 'W'
NOT_THERE == 87

\* 'Y'
WRONG_SPOT == 89

\* 'G'
RIGHT_SPOT == 71

\* ------------------------------------------------------------ bounds

\* The longest dictionary stream that is loaded, in tokens.
MaxTokens == 3

\* The most (guess, feedback) pairs handed to the ledger one after another.
MaxRounds == 2

\* ------------------------------------------------------------ inputs

\* "ALLOW"
ALLOW == <<65, 76, 76, 79, 87>>

\* "SALAD"
SALAD == <<83, 65, 76, 65, 68>>

\* "LEVEE"
LEVEE == <<76, 69, 86, 69, 69>>

\* "CRATE"
CRATE == <<67, 82, 65, 84, 69>>

\* "CRANE"
CRANE == <<67, 82, 65, 78, 69>>

\* "GRADE"
GRADE == <<71, 82, 65, 68, 69>>

\* "AAAAA"
AAAAA == <<65, 65, 65, 65, 65>>

\* "China", "china": case variants of one word
China_Capitalised == <<67, 104, 105, 110, 97>>

china_lower == <<99, 104, 105, 110, 97>>

\* "can't": five characters, one of them not alphabetic
cant_apostrophe == <<99, 97, 110, 39, 116>>

\* "it's": four characters
its_short == <<105, 116, 39, 115>>

\* "allows": six characters
allows_long == <<97, 108, 108, 111, 119, 115>>

\* The tokens a dictionary stream is made of.
Tokens ==
    { ALLOW, SALAD, LEVEE, CRATE, CRANE, GRADE, AAAAA,
      China_Capitalised, china_lower, cant_apostrophe, its_short, allows_long }

RECURSIVE SeqsUpTo(_, _)
SeqsUpTo(S, n) ==
    IF n = 0 THEN { <<>> }
    ELSE LET shorter == SeqsUpTo(S, n - 1)
         IN  shorter \cup { Append(s, x) : s \in { t \in shorter : Len(t) = n - 1 }, x \in S }

\* The dictionary streams: every sequence of at most MaxTokens tokens.
Streams == SeqsUpTo(Tokens, MaxTokens)

\* "GGGGG"
AllExact == <<71, 71, 71, 71, 71>>

\* The feedback strings that pass the assertions of lines 239 and 241.
WellFormedFeedback == [1..WORD_LENGTH -> {NOT_THERE, WRONG_SPOT, RIGHT_SPOT}]

\* Feedback strings that do not: "ggggg", "GYW", "GYWWGG", "GXWWW", "gywwg"
\* and the empty string left by a read at end of input.
MalformedFeedback ==
    { <<103, 103, 103, 103, 103>>,
      <<71, 89, 87>>,
      <<71, 89, 87, 87, 71, 71>>,
      <<71, 88, 87, 87, 87>>,
      <<103, 121, 119, 119, 103>>,
      <<>> }

\* What the user may type at "Enter a response like GYWWG: ".
FeedbackInputs == WellFormedFeedback \cup MalformedFeedback

\* ------------------------------------------------------------ state

VARIABLES
    in,                                 \* the dictionary stream not yet read
    m_possibleWords,                    \* WordCollection::m_possibleWords
    m_finishedPositionConstraints,
    m_finishedLetterCountConstraints,
    m_newPositionConstraints,
    m_newLetterCountConstraints,
    numGuesses,                         \* main's counter
    current_guess,                      \* main's current_guess (<<>> before the first)
    current_feedback,                   \* main's current_feedback
    positionConstraints,                \* the set generatePositionConstraints returned this round
    letterCountConstraints,             \* the set generateLetterCountConstraints returned this round
    feedbacksRead,                      \* how many feedback strings were read from std::cin
    assertFailed,                       \* source line of the failed assert, 0 when none
    pc                                  \* where the process is

vars ==
    << in, m_possibleWords, m_finishedPositionConstraints,
       m_finishedLetterCountConstraints, m_newPositionConstraints,
       m_newLetterCountConstraints, numGuesses, current_guess, current_feedback,
       positionConstraints, letterCountConstraints, feedbacksRead, assertFailed, pc >>

ledger ==
    << m_finishedPositionConstraints, m_finishedLetterCountConstraints,
       m_newPositionConstraints, m_newLetterCountConstraints >>

\* ------------------------------------------------------------ characters

islower(c) == c >= 97 /\ c <= 122

isupper(c) == c >= 65 /\ c <= 90

isalpha(c) == islower(c) \/ isupper(c)

toupper(c) == IF islower(c) THEN c - 32 ELSE c

\* ------------------------------------------------------------ WordCollection

\* Lines 40-45: the token after the in-place conversion of its lower-case letters.
Uppercased(temp) == [index \in 1..Len(temp) |-> IF islower(temp[index]) THEN toupper(temp[index]) ELSE temp[index]]

\* Lines 39-45: good stays true iff every character is lower-case or alphabetic.
Good(temp) == \A index \in 1..WORD_LENGTH : islower(temp[index]) \/ isalpha(temp[index])

\* The constructor's loop: the words inserted so far, and whether the
\* assertion of line 47 has held for every accepted token.
RECURSIVE LoadWords(_, _)
LoadWords(stream, words) ==
    IF stream = <<>> THEN [ok |-> TRUE, words |-> words]
    ELSE LET temp == Head(stream)
         IN  IF Len(temp) = WORD_LENGTH /\ Good(temp)
             THEN IF Uppercased(temp) \in words
                  THEN [ok |-> FALSE, words |-> words]
                  ELSE LoadWords(Tail(stream), words \cup {Uppercased(temp)})
             ELSE LoadWords(Tail(stream), words)

\* Occurrences of character c in str.
Occurrences(c, str) == Cardinality({ i \in 1..Len(str) : str[i] = c })

RECURSIVE SumOver(_, _)
SumOver(S, f) ==
    IF S = {} THEN 0
    ELSE LET x == CHOOSE y \in S : TRUE
         IN  f[x] + SumOver(S \ {x}, f)

\* Variant of letterFrequencies: a word counts once for a letter it contains.
letterFrequencies_PerWord(words, c) == Cardinality({ word \in words : Occurrences(c, word) > 0 })

\* Lines 64-70: every character of every word increments its letter's entry.
letterFrequencies(words, c) == SumOver(words, [word \in words |-> Occurrences(c, word)])

\* Lines 74-81: the frequencies of the word's letters, each letter once.
score(words, word) ==
    LET seen == { word[i] : i \in 1..Len(word) }
    IN  SumOver(seen, [c \in seen |-> letterFrequencies(words, c)])

\* Lines 72, 82-89: the largest score met, starting from 0.
bestScore(words) ==
    LET scores == { score(words, word) : word \in words } \cup {0}
    IN  CHOOSE s \in scores : \A t \in scores : t <= s

\* Variant of bestOptions: a word that equals the best score does not join
\* the options (the else-branch of lines 87-89 left out).
bestOptions_FirstOnly(words) ==
    IF words = {} THEN {}
    ELSE { CHOOSE word \in words : score(words, word) = bestScore(words) }

\* Lines 71-90: the words whose score equals the final bestScore.
bestOptions(words) == { word \in words : score(words, word) = bestScore(words) }

\* ------------------------------------------------------------ constraints

\* A PositionConstraint (lines 130-131, 145-147).
PositionConstraint(index, letter, shouldMatch) ==
    [m_index |-> index, m_letter |-> letter, m_shouldMatch |-> shouldMatch]

\* The assertions of its constructor (lines 132-133).
PositionConstraintAsserts(c) == c.m_index < WORD_LENGTH /\ c.m_letter >= 65 /\ c.m_letter <= 90

\* PositionConstraint::satisfies
PositionSatisfies(c, str) == (str[c.m_index + 1] = c.m_letter) = c.m_shouldMatch

\* A LetterCountConstraint (lines 170-171, 190-192).
LetterCountConstraint(count, letter, min) ==
    [m_count |-> count, m_letter |-> letter, m_min |-> min]

\* The assertions of its constructor (lines 172-173).
LetterCountConstraintAsserts(c) == c.m_count < WORD_LENGTH /\ c.m_letter >= 65 /\ c.m_letter <= 90

\* Variant of LetterCountSatisfies: strict comparisons.
LetterCountSatisfies_Strict(c, str) ==
    LET amt == Cardinality({ i \in 1..Len(str) : str[i] = c.m_letter })
    IN  IF c.m_min THEN amt > c.m_count ELSE amt < c.m_count

\* LetterCountConstraint::satisfies
LetterCountSatisfies(c, str) ==
    LET amt == Occurrences(c.m_letter, str)
    IN  IF c.m_min THEN amt >= c.m_count ELSE amt <= c.m_count

\* ------------------------------------------------------------ derivation

\* The assertion of lines 239 and 262.
LengthAssert(guess, feedback) == Len(guess) = WORD_LENGTH /\ Len(feedback) = WORD_LENGTH

\* The assertion of lines 240 and 263.
GuessAssert(guess) == \A i \in 1..Len(guess) : guess[i] >= 65 /\ guess[i] <= 90

\* Variant of FeedbackAssert: the assertion compiled out.
FeedbackAssert_Disabled(feedback) == TRUE

\* The assertion of lines 241 and 264.
FeedbackAssert(feedback) ==
    \A i \in 1..Len(feedback) : feedback[i] \in {NOT_THERE, WRONG_SPOT, RIGHT_SPOT}

\* Variant of generatePositionConstraints: the two flavours exchanged.
generatePositionConstraints_Swapped(guess, feedback) ==
    { [m_index |-> index, m_letter |-> guess[index + 1], m_shouldMatch |-> FALSE] :
        index \in { i \in 0..(WORD_LENGTH - 1) : feedback[i + 1] = RIGHT_SPOT } }
    \cup
    { [m_index |-> index, m_letter |-> guess[index + 1], m_shouldMatch |-> TRUE] :
        index \in { i \in 0..(WORD_LENGTH - 1) : feedback[i + 1] = WRONG_SPOT } }

\* generatePositionConstraints, lines 242-251.
generatePositionConstraints(guess, feedback) ==
    { PositionConstraint(index, guess[index + 1], TRUE) :
        index \in { i \in 0..(WORD_LENGTH - 1) : feedback[i + 1] = RIGHT_SPOT } }
    \cup
    { PositionConstraint(index, guess[index + 1], FALSE) :
        index \in { i \in 0..(WORD_LENGTH - 1) : feedback[i + 1] = WRONG_SPOT } }

\* Variant of ConfirmedCount: the position itself is not counted.
ConfirmedCount_Others(guess, feedback, index) ==
    Cardinality({ j \in 1..Len(guess) :
                    /\ j # index + 1
                    /\ guess[j] = guess[index + 1]
                    /\ (feedback[index + 1] = WRONG_SPOT \/ feedback[index + 1] = RIGHT_SPOT) })

\* Lines 268-271 and 275-278: the inner loop runs over the characters c of the
\* guess and tests feedback[index], the feedback of the outer position.
ConfirmedCount(guess, feedback, index) ==
    Cardinality({ j \in 1..Len(guess) :
                    /\ guess[j] = guess[index + 1]
                    /\ (feedback[index + 1] = WRONG_SPOT \/ feedback[index + 1] = RIGHT_SPOT) })

\* generateLetterCountConstraints, lines 265-282.
generateLetterCountConstraints(guess, feedback) ==
    { LetterCountConstraint(ConfirmedCount(guess, feedback, index), guess[index + 1], TRUE) :
        index \in { i \in 0..(WORD_LENGTH - 1) : feedback[i + 1] = WRONG_SPOT } }
    \cup
    { LetterCountConstraint(ConfirmedCount(guess, feedback, index), guess[index + 1], FALSE) :
        index \in { i \in 0..(WORD_LENGTH - 1) : feedback[i + 1] = NOT_THERE } }

\* ------------------------------------------------------------ ledger

\* Variant of addPositionConstraint: the test of line 316 left out.
addPositionConstraint_Unchecked(finished, new, c) == new \cup {c}

\* addPositionConstraint: New after admitting c.
addPositionConstraint(finished, new, c) == IF c \notin finished THEN new \cup {c} ELSE new

\* Variant of addLetterCountConstraint: the test of line 323 left out.
addLetterCountConstraint_Unchecked(finished, new, c) == new \cup {c}

\* addLetterCountConstraint: New after admitting c.
addLetterCountConstraint(finished, new, c) == IF c \notin finished THEN new \cup {c} ELSE new

\* The loop of lines 361-363.
RECURSIVE AdmitPositionConstraints(_, _, _)
AdmitPositionConstraints(finished, new, cs) ==
    IF cs = {} THEN new
    ELSE LET c == CHOOSE x \in cs : TRUE
         IN  AdmitPositionConstraints(finished, addPositionConstraint(finished, new, c), cs \ {c})

\* The loop of lines 364-366.
RECURSIVE AdmitLetterCountConstraints(_, _, _)
AdmitLetterCountConstraints(finished, new, cs) ==
    IF cs = {} THEN new
    ELSE LET c == CHOOSE x \in cs : TRUE
         IN  AdmitLetterCountConstraints(finished, addLetterCountConstraint(finished, new, c), cs \ {c})

\* The words the loader accepts from the tokens.
Vocabulary == { Uppercased(t) : t \in { u \in Tokens : Len(u) = WORD_LENGTH /\ Good(u) } }

\* Variant of Survivors: only the position constraints are tested.
Survivors_PositionOnly(candidates, newPosition, newLetterCount) ==
    { word \in candidates : \A c \in newPosition : PositionSatisfies(c, word) }

\* Variant of Survivors: the pool is rebuilt from every known word that
\* satisfies the new constraints.
Survivors_OfVocabulary(candidates, newPosition, newLetterCount) ==
    { word \in Vocabulary :
        /\ \A c \in newPosition : PositionSatisfies(c, word)
        /\ \A c \in newLetterCount : LetterCountSatisfies(c, word) }

\* Lines 291-307: the candidates that are not erased.
Survivors(candidates, newPosition, newLetterCount) ==
    { word \in candidates :
        /\ \A c \in newPosition : PositionSatisfies(c, word)
        /\ \A c \in newLetterCount : LetterCountSatisfies(c, word) }

\* std::unordered_set::merge: the target afterwards.
MergeTarget(target, source) == target \cup source

\* std::unordered_set::merge: what stays in the source, the elements the
\* target already held.
MergeSource(target, source) == source \cap target

\* ------------------------------------------------------------ main

\* Variant of PoolIsEmpty: the check of line 348 left out.
PoolIsEmpty_Never(words) == FALSE

\* Variant of IsSolved: the comparison made with "ggggg".
IsSolved_LowerCase(feedback) == feedback = <<103, 103, 103, 103, 103>>

\* Line 348.
PoolIsEmpty(words) == words = {}

\* Line 357.
IsSolved(feedback) == feedback = AllExact

Init ==
    /\ in \in Streams
    /\ m_possibleWords = {}
    /\ m_finishedPositionConstraints = {}
    /\ m_finishedLetterCountConstraints = {}
    /\ m_newPositionConstraints = {}
    /\ m_newLetterCountConstraints = {}
    /\ numGuesses = 0
    /\ current_guess = <<>>
    /\ current_feedback = <<>>
    /\ positionConstraints = {}
    /\ letterCountConstraints = {}
    /\ feedbacksRead = 0
    /\ assertFailed = 0
    /\ pc = "load"

\* Line 342: WordCollection words (dict).
Load ==
    /\ pc = "load"
    /\ LET r == LoadWords(in, {})
       IN  /\ m_possibleWords' = r.words
           /\ IF r.ok
              THEN /\ in' = <<>>
                   /\ pc' = "guess"
                   /\ assertFailed' = 0
              ELSE /\ in' = in
                   /\ pc' = "aborted"
                   /\ assertFailed' = 47
    /\ UNCHANGED << ledger, numGuesses, current_guess, current_feedback,
                    positionConstraints, letterCountConstraints, feedbacksRead >>

\* Lines 347-353: the top of the loop, up to the recommendation.
Guess ==
    /\ pc = "guess"
    /\ numGuesses' = numGuesses + 1
    /\ positionConstraints' = {}
    /\ letterCountConstraints' = {}
    /\ IF PoolIsEmpty(m_possibleWords)
       THEN /\ pc' = "exhausted"
            /\ UNCHANGED current_guess
       ELSE IF bestOptions(m_possibleWords) = {}
       THEN \* rand () % 0
            /\ pc' = "crashed"
            /\ UNCHANGED current_guess
       ELSE /\ current_guess' \in bestOptions(m_possibleWords)
            /\ pc' = "feedback"
    /\ UNCHANGED << in, m_possibleWords, ledger, current_feedback, feedbacksRead, assertFailed >>

\* Lines 355-366: read the feedback, stop on GGGGG, else derive and admit.
Feedback ==
    /\ pc = "feedback"
    /\ \E fb \in FeedbackInputs :
        /\ current_feedback' = fb
        /\ feedbacksRead' = feedbacksRead + 1
        /\ IF IsSolved(fb)
           THEN /\ pc' = "solved"
                /\ UNCHANGED << ledger, positionConstraints, letterCountConstraints, assertFailed >>
           ELSE IF ~LengthAssert(current_guess, fb)
           THEN /\ pc' = "aborted"
                /\ assertFailed' = 239
                /\ UNCHANGED << ledger, positionConstraints, letterCountConstraints >>
           ELSE IF ~GuessAssert(current_guess)
           THEN /\ pc' = "aborted"
                /\ assertFailed' = 240
                /\ UNCHANGED << ledger, positionConstraints, letterCountConstraints >>
           ELSE IF ~FeedbackAssert(fb)
           THEN /\ pc' = "aborted"
                /\ assertFailed' = 241
                /\ UNCHANGED << ledger, positionConstraints, letterCountConstraints >>
           ELSE LET ps == generatePositionConstraints(current_guess, fb)
                    ls == generateLetterCountConstraints(current_guess, fb)
                IN  IF \E c \in ps : ~PositionConstraintAsserts(c)
                    THEN /\ pc' = "aborted"
                         /\ assertFailed' = 132
                         /\ UNCHANGED << ledger, positionConstraints, letterCountConstraints >>
                    ELSE /\ positionConstraints' = ps
                         /\ m_newPositionConstraints' =
                                AdmitPositionConstraints(m_finishedPositionConstraints,
                                                         m_newPositionConstraints, ps)
                         /\ UNCHANGED << m_finishedPositionConstraints,
                                         m_finishedLetterCountConstraints >>
                         /\ IF \E c \in ls : ~LetterCountConstraintAsserts(c)
                            THEN /\ pc' = "aborted"
                                 /\ assertFailed' = 172
                                 /\ UNCHANGED << m_newLetterCountConstraints,
                                                 letterCountConstraints >>
                            ELSE /\ letterCountConstraints' = ls
                                 /\ m_newLetterCountConstraints' =
                                        AdmitLetterCountConstraints(m_finishedLetterCountConstraints,
                                                                    m_newLetterCountConstraints, ls)
                                 /\ pc' = "process"
                                 /\ UNCHANGED assertFailed
    /\ UNCHANGED << in, m_possibleWords, numGuesses, current_guess >>

\* Line 367: constraints.processNewConstraints (words.m_possibleWords).
ProcessNewConstraints ==
    /\ pc = "process"
    /\ m_possibleWords' =
           Survivors(m_possibleWords, m_newPositionConstraints, m_newLetterCountConstraints)
    /\ m_finishedPositionConstraints' =
           MergeTarget(m_finishedPositionConstraints, m_newPositionConstraints)
    /\ m_newPositionConstraints' =
           MergeSource(m_finishedPositionConstraints, m_newPositionConstraints)
    /\ IF m_newPositionConstraints' # {}
       THEN /\ pc' = "aborted"
            /\ assertFailed' = 309
            /\ UNCHANGED << m_finishedLetterCountConstraints, m_newLetterCountConstraints >>
       ELSE /\ m_finishedLetterCountConstraints' =
                   MergeTarget(m_finishedLetterCountConstraints, m_newLetterCountConstraints)
            /\ m_newLetterCountConstraints' =
                   MergeSource(m_finishedLetterCountConstraints, m_newLetterCountConstraints)
            /\ IF m_newLetterCountConstraints' # {}
               THEN /\ pc' = "aborted"
                    /\ assertFailed' = 311
               ELSE /\ pc' = "guess"
                    /\ UNCHANGED assertFailed
    /\ UNCHANGED << in, numGuesses, current_guess, current_feedback,
                    positionConstraints, letterCountConstraints, feedbacksRead >>

Next == Load \/ Guess \/ Feedback \/ ProcessNewConstraints

Spec == Init /\ [][Next]_vars

\* ------------------------------------------------------------ the ledger alone

\* ConstraintCollection driven through its public methods in any order:
\* addPositionConstraint, addLetterCountConstraint and processNewConstraints,
\* each with any argument, on a pool holding every known word.  Here
\* positionConstraints and letterCountConstraints hold the constraints handed
\* to the add methods since the last processNewConstraints.

\* (0, A, may not), (2, L, must), (0, C, must), (2, A, must)
PositionInputs ==
    { PositionConstraint(0, 65, FALSE), PositionConstraint(2, 76, TRUE),
      PositionConstraint(0, 67, TRUE), PositionConstraint(2, 65, TRUE) }

\* (1, A, minimum), (0, L, maximum), (0, O, maximum), (2, L, minimum)
LetterCountInputs ==
    { LetterCountConstraint(1, 65, TRUE), LetterCountConstraint(0, 76, FALSE),
      LetterCountConstraint(0, 79, FALSE), LetterCountConstraint(2, 76, TRUE) }

LedgerInit ==
    /\ in = <<>>
    /\ m_possibleWords = Vocabulary
    /\ m_finishedPositionConstraints = {}
    /\ m_finishedLetterCountConstraints = {}
    /\ m_newPositionConstraints = {}
    /\ m_newLetterCountConstraints = {}
    /\ numGuesses = 0
    /\ current_guess = <<>>
    /\ current_feedback = <<>>
    /\ positionConstraints = {}
    /\ letterCountConstraints = {}
    /\ feedbacksRead = 0
    /\ assertFailed = 0
    /\ pc = "ledger"

\* constraints.addPositionConstraint (c)
LedgerAddPosition(c) ==
    /\ pc = "ledger"
    /\ m_newPositionConstraints' =
           addPositionConstraint(m_finishedPositionConstraints, m_newPositionConstraints, c)
    /\ positionConstraints' = positionConstraints \cup {c}
    /\ UNCHANGED << in, m_possibleWords, m_finishedPositionConstraints,
                    m_finishedLetterCountConstraints, m_newLetterCountConstraints,
                    numGuesses, current_guess, current_feedback, letterCountConstraints,
                    feedbacksRead, assertFailed, pc >>

\* constraints.addLetterCountConstraint (c)
LedgerAddLetterCount(c) ==
    /\ pc = "ledger"
    /\ m_newLetterCountConstraints' =
           addLetterCountConstraint(m_finishedLetterCountConstraints,
                                    m_newLetterCountConstraints, c)
    /\ letterCountConstraints' = letterCountConstraints \cup {c}
    /\ UNCHANGED << in, m_possibleWords, m_finishedPositionConstraints,
                    m_finishedLetterCountConstraints, m_newPositionConstraints,
                    numGuesses, current_guess, current_feedback, positionConstraints,
                    feedbacksRead, assertFailed, pc >>

\* constraints.processNewConstraints (words.m_possibleWords)
LedgerProcess ==
    /\ pc = "ledger"
    /\ m_possibleWords' =
           Survivors(m_possibleWords, m_newPositionConstraints, m_newLetterCountConstraints)
    /\ m_finishedPositionConstraints' =
           MergeTarget(m_finishedPositionConstraints, m_newPositionConstraints)
    /\ m_newPositionConstraints' =
           MergeSource(m_finishedPositionConstraints, m_newPositionConstraints)
    /\ IF m_newPositionConstraints' # {}
       THEN /\ pc' = "aborted"
            /\ assertFailed' = 309
            /\ UNCHANGED << m_finishedLetterCountConstraints, m_newLetterCountConstraints >>
       ELSE /\ m_finishedLetterCountConstraints' =
                   MergeTarget(m_finishedLetterCountConstraints, m_newLetterCountConstraints)
            /\ m_newLetterCountConstraints' =
                   MergeSource(m_finishedLetterCountConstraints, m_newLetterCountConstraints)
            /\ IF m_newLetterCountConstraints' # {}
               THEN /\ pc' = "aborted"
                    /\ assertFailed' = 311
               ELSE /\ pc' = "ledger"
                    /\ UNCHANGED assertFailed
    /\ positionConstraints' = {}
    /\ letterCountConstraints' = {}
    /\ UNCHANGED << in, numGuesses, current_guess, current_feedback, feedbacksRead >>

LedgerNext ==
    \/ \E c \in PositionInputs : LedgerAddPosition(c)
    \/ \E c \in LetterCountInputs : LedgerAddLetterCount(c)
    \/ LedgerProcess

LedgerSpec == LedgerInit /\ [][LedgerNext]_vars

\* ------------------------------------------------------------ properties

\* The round has derived its constraints from a well-formed feedback.
Derived == pc = "process"

\* The letter-count constraints as the documentation of lines 258-259
\* describes them: for position i with Misplaced or Absent feedback, the count
\* is the number of positions j holding the same letter whose own feedback
\* is Misplaced or Exact.
DocumentedCount(guess, feedback, i) ==
    Cardinality({ j \in 1..WORD_LENGTH :
                    guess[j] = guess[i] /\ feedback[j] \in {WRONG_SPOT, RIGHT_SPOT} })

DocumentedLetterCountConstraints(guess, feedback) ==
    { [m_count |-> DocumentedCount(guess, feedback, i), m_letter |-> guess[i],
       m_min |-> feedback[i] = WRONG_SPOT] :
        i \in { k \in 1..WORD_LENGTH : feedback[k] \in {WRONG_SPOT, NOT_THERE} } }

\* C1: for every guess and well-formed feedback the derived letter-count
\* constraints are exactly one per Misplaced or Absent position i, on guess[i],
\* with count the number of positions j with guess[j] = guess[i] whose feedback
\* (that of j) is Misplaced or Exact, a minimum for Misplaced and a maximum for
\* Absent; so ALLOW with Y,W,G,W,W gives (1, L, maximum) for the Absent L.
C1_LetterCountsAsDocumented ==
    Derived =>
        letterCountConstraints = DocumentedLetterCountConstraints(current_guess, current_feedback)

\* The feedback the puzzle gives for guess against secret: exact matches
\* first, then misplaced copies left to right up to the secret's remaining
\* copies, the rest absent.
TrueFeedback(guess, secret) ==
    [i \in 1..WORD_LENGTH |->
        IF guess[i] = secret[i] THEN RIGHT_SPOT
        ELSE LET remaining == Cardinality({ j \in 1..WORD_LENGTH :
                                              secret[j] = guess[i] /\ guess[j] # secret[j] })
                 earlier   == Cardinality({ j \in 1..(i - 1) :
                                              guess[j] = guess[i] /\ guess[j] # secret[j] })
             IN  IF earlier < remaining THEN WRONG_SPOT ELSE NOT_THERE]

\* C2: a word of the pool for which the round's feedback is the true feedback
\* of the recommended guess is still in the pool after processNewConstraints
\* (so, round after round, the secret is never eliminated).
C2_SecretStaysInPool ==
    [][pc = "process" =>
         \A secret \in m_possibleWords :
             current_feedback = TrueFeedback(current_guess, secret)
                 => secret \in m_possibleWords']_vars

\* Every position constraint the code can construct.
AllPositionConstraints ==
    [m_index : 0..(WORD_LENGTH - 1), m_letter : 65..90, m_shouldMatch : BOOLEAN]

\* C3: the derived position constraints are exactly (i, guess[i], true) for
\* each Exact index i and (i, guess[i], false) for each Misplaced index i;
\* an Absent index gives none.
C3_PositionConstraintsExact ==
    (pc = "process" \/ (pc = "aborted" /\ assertFailed = 172)) =>
        positionConstraints =
            { c \in AllPositionConstraints :
                /\ c.m_letter = current_guess[c.m_index + 1]
                /\ \/ c.m_shouldMatch /\ current_feedback[c.m_index + 1] = RIGHT_SPOT
                   \/ ~c.m_shouldMatch /\ current_feedback[c.m_index + 1] = WRONG_SPOT }

\* C3 witness: ALLOW with Y,W,G,W,W has been derived.
C3_Witness ==
    /\ pc = "process"
    /\ current_guess = ALLOW
    /\ current_feedback = <<WRONG_SPOT, NOT_THERE, RIGHT_SPOT, NOT_THERE, NOT_THERE>>

\* The letters of a word.
LettersOf(word) == { word[i] : i \in 1..Len(word) }

RECURSIVE Total(_, _)
Total(S, f) ==
    IF S = {} THEN 0
    ELSE LET x == CHOOSE y \in S : TRUE
         IN  f[x] + Total(S \ {x}, f)

\* The score of C4: a letter's frequency is the number of pool words that
\* contain it.
ScoreByWords(pool, word) ==
    Total(LettersOf(word),
          [c \in LettersOf(word) |-> Cardinality({ w \in pool : c \in LettersOf(w) })])

\* The score with a letter's frequency the number of its occurrences in the
\* pool, a word holding it twice adding 2.
ScoreByOccurrences(pool, word) ==
    Total(LettersOf(word),
          [c \in LettersOf(word) |->
              Total(pool, [w \in pool |-> Cardinality({ i \in 1..Len(w) : w[i] = c })])])

\* C4 as stated: the recommended word is a pool word whose score is maximal
\* when a letter's frequency counts the words containing it.
C4_BestByWordFrequency ==
    pc = "feedback" =>
        /\ current_guess \in m_possibleWords
        /\ \A w \in m_possibleWords :
              ScoreByWords(m_possibleWords, w) <= ScoreByWords(m_possibleWords, current_guess)

\* C4 amended: the recommended word is a pool word whose score is maximal
\* when a letter's frequency counts its occurrences in the pool.
C4_BestByOccurrenceFrequency ==
    pc = "feedback" =>
        /\ current_guess \in m_possibleWords
        /\ \A w \in m_possibleWords :
              ScoreByOccurrences(m_possibleWords, w)
                  <= ScoreByOccurrences(m_possibleWords, current_guess)

\* C4 witness: from the pool {ALLOW, LEVEE} the word LEVEE was recommended.
C4_Witness ==
    /\ pc = "feedback"
    /\ m_possibleWords = {ALLOW, LEVEE}
    /\ current_guess = LEVEE

\* C5: every word of the pool satisfies every Finished constraint of both
\* kinds, those finished in earlier rounds included.
C5_PoolSatisfiesFinished ==
    \A word \in m_possibleWords :
        /\ \A c \in m_finishedPositionConstraints :
              (word[c.m_index + 1] = c.m_letter) <=> c.m_shouldMatch
        /\ \A c \in m_finishedLetterCountConstraints :
              LET n == Cardinality({ i \in 1..WORD_LENGTH : word[i] = c.m_letter })
              IN  (c.m_min => n >= c.m_count) /\ (~c.m_min => n <= c.m_count)

\* C5 witness: two batches have been applied and candidates remain.
C5_Witness ==
    /\ pc = "guess"
    /\ numGuesses = 2
    /\ m_possibleWords # {}
    /\ m_finishedPositionConstraints # {}
    /\ m_finishedLetterCountConstraints # {}

\* The feedback just read is malformed.
MalformedRead == pc = "feedback" /\ current_feedback' \notin WellFormedFeedback

\* C6 as stated: malformed feedback admits no constraint, leaves the pool and
\* the New and Finished sets unchanged, and the session goes on: the feedback
\* can be asked for again.
C6_MalformedFeedbackRePrompts ==
    [][MalformedRead =>
         /\ UNCHANGED << m_possibleWords, ledger >>
         /\ pc' \in {"guess", "feedback"}]_vars

\* C6 amended: malformed feedback fails the assertion of line 239 or 241,
\* which ends the process in that round; no constraint is admitted and the
\* pool and the New and Finished sets are as they were.
C6_MalformedFeedbackAborts ==
    [][MalformedRead =>
         /\ UNCHANGED << m_possibleWords, ledger >>
         /\ pc' = "aborted"
         /\ assertFailed' \in {239, 241}]_vars

\* C6 witness: "ggggg" was entered and the assertion of line 241 failed.
C6_Witness ==
    /\ pc = "aborted"
    /\ assertFailed = 241
    /\ current_feedback = <<103, 103, 103, 103, 103>>

\* The words C7 expects of a stream: the upper-cased forms of its tokens of
\* exactly five alphabetic characters.
ExpectedWords(stream) ==
    { [i \in 1..WORD_LENGTH |-> IF stream[k][i] >= 97 THEN stream[k][i] - 32 ELSE stream[k][i]] :
        k \in { n \in 1..Len(stream) :
                  /\ Len(stream[n]) = WORD_LENGTH
                  /\ \A i \in 1..WORD_LENGTH :
                        stream[n][i] \in (65..90) \cup (97..122) } }

\* C7: loading any stream completes without failure and yields exactly the
\* upper-cased forms of its tokens of five alphabetic characters, a word that
\* two tokens normalize to appearing once.
C7_LoadCompletes ==
    [][pc = "load" => pc' = "guess" /\ m_possibleWords' = ExpectedWords(in)]_vars

\* C8: bestWord is never evaluated on an empty pool (no division by zero), and
\* a request for a guess on an empty pool ends the session with the
\* "not in my dictionary" outcome and recommends no word.
C8_EmptyPoolEndsSession ==
    /\ [](pc # "crashed")
    /\ [][pc = "guess" /\ m_possibleWords = {} =>
            pc' = "exhausted" /\ UNCHANGED current_guess]_vars

\* C8 witness: the pool became empty after a batch and the session ended.
C8_Witness ==
    /\ pc = "exhausted"
    /\ feedbacksRead >= 1
    /\ m_possibleWords = {}

\* C9: when the feedback read in round k is GGGGG the session ends in that
\* round with success and guess count k, and the round derives and applies no
\* constraint: the pool and the ledger are as they were.
C9_AllExactEndsRound ==
    [][pc = "feedback" /\ current_feedback' = AllExact =>
         /\ pc' = "solved"
         /\ numGuesses' = feedbacksRead'
         /\ UNCHANGED << m_possibleWords, ledger >>]_vars

\* C9 witness: pool {CRATE, CRANE, GRADE}, guess CRATE, GGGGG, solved at count 1.
C9_Witness ==
    /\ pc = "solved"
    /\ numGuesses = 1
    /\ current_guess = CRATE
    /\ m_possibleWords = {CRATE, CRANE, GRADE}

\* C10: once loaded, the pool after any step is a subset of the pool before
\* it: it never grows, and no removed or unknown word ever enters it.
C10_PoolOnlyShrinks ==
    [][pc # "load" => m_possibleWords' \subseteq m_possibleWords]_vars

\* C10 witness: a batch removed the guessed word and left other candidates.
C10_Witness ==
    /\ pc = "guess"
    /\ feedbacksRead = 1
    /\ m_possibleWords # {}
    /\ current_guess \notin m_possibleWords

\* C11: admitting a constraint that is already in New (same round) or already
\* in Finished (later round) leaves New and Finished as they were, and no
\* step puts a Finished constraint into New.
C11_ReadmissionChangesNothing ==
    [][/\ \A c \in PositionInputs :
             LedgerAddPosition(c)
                 /\ c \in m_newPositionConstraints \cup m_finishedPositionConstraints
                 => UNCHANGED ledger
       /\ \A c \in LetterCountInputs :
             LedgerAddLetterCount(c)
                 /\ c \in m_newLetterCountConstraints \cup m_finishedLetterCountConstraints
                 => UNCHANGED ledger
       /\ m_finishedPositionConstraints \cap m_newPositionConstraints' = {}
       /\ m_finishedLetterCountConstraints \cap m_newLetterCountConstraints' = {}]_vars

\* C11 witness: in one round a Finished constraint of each kind was handed to
\* the add methods again, beside constraints that are New.
C11_Witness ==
    /\ pc = "ledger"
    /\ positionConstraints \cap m_finishedPositionConstraints # {}
    /\ letterCountConstraints \cap m_finishedLetterCountConstraints # {}
    /\ m_newPositionConstraints # {}
    /\ m_newLetterCountConstraints # {}

\* C12: when a guess is requested from a non-empty pool, a pool word can be
\* the word recommended exactly when its score is the maximum: every tied
\* word is a possible result, and no word below the maximum is.
C12_EveryTiedWordPossible ==
    pc = "guess" /\ m_possibleWords # {} =>
        \A w \in m_possibleWords :
            (\A v \in m_possibleWords :
                 ScoreByOccurrences(m_possibleWords, v) <= ScoreByOccurrences(m_possibleWords, w))
            <=> ENABLED (Guess /\ current_guess' = w)

\* C12 witness: from {CRATE, CRANE, GRADE}, where CRATE and CRANE tie at 12
\* and GRADE scores 11, CRANE was recommended.
C12_Witness ==
    /\ pc = "feedback"
    /\ m_possibleWords = {CRATE, CRANE, GRADE}
    /\ current_guess = CRANE
    /\ ScoreByOccurrences(m_possibleWords, CRATE) = ScoreByOccurrences(m_possibleWords, CRANE)
    /\ ScoreByOccurrences(m_possibleWords, GRADE) < ScoreByOccurrences(m_possibleWords, CRANE)

\* The five letters of the word are all different.
AllDistinct(word) == \A i, j \in 1..WORD_LENGTH : word[i] = word[j] => i = j

\* C13: for a guess of five distinct letters the derived letter-count
\* constraints are exactly (0, letter, maximum) for each Absent letter and
\* (1, letter, minimum) for each Misplaced letter, none for an Exact letter.
C13_DistinctLetterCounts ==
    pc = "process" /\ AllDistinct(current_guess) =>
        letterCountConstraints =
            { [m_count |-> 0, m_letter |-> current_guess[i], m_min |-> FALSE] :
                i \in { k \in 1..WORD_LENGTH : current_feedback[k] = NOT_THERE } }
            \cup
            { [m_count |-> 1, m_letter |-> current_guess[i], m_min |-> TRUE] :
                i \in { k \in 1..WORD_LENGTH : current_feedback[k] = WRONG_SPOT } }

\* C13 witness: CRANE with G,W,W,W,W gave the one position constraint
\* (0, C, must) and maximum-0 constraints for R, A, N and E only.
C13_Witness ==
    /\ pc = "process"
    /\ current_guess = CRANE
    /\ current_feedback = <<RIGHT_SPOT, NOT_THERE, NOT_THERE, NOT_THERE, NOT_THERE>>
    /\ positionConstraints = { [m_index |-> 0, m_letter |-> 67, m_shouldMatch |-> TRUE] }
    /\ letterCountConstraints =
           { [m_count |-> 0, m_letter |-> l, m_min |-> FALSE] : l \in {82, 65, 78, 69} }

\* C14: New and Finished are disjoint in every state; processNewConstraints
\* leaves both New sets empty (the assertions of lines 309 and 311 hold) with
\* everything that was New now Finished; and no step removes a constraint
\* from Finished.
C14_NewAndFinished ==
    /\ [](/\ m_newPositionConstraints \cap m_finishedPositionConstraints = {}
          /\ m_newLetterCountConstraints \cap m_finishedLetterCountConstraints = {}
          /\ assertFailed \notin {309, 311})
    /\ [][/\ pc = "process" =>
               /\ m_newPositionConstraints' = {}
               /\ m_newLetterCountConstraints' = {}
               /\ m_newPositionConstraints \subseteq m_finishedPositionConstraints'
               /\ m_newLetterCountConstraints \subseteq m_finishedLetterCountConstraints'
          /\ m_finishedPositionConstraints \subseteq m_finishedPositionConstraints'
          /\ m_finishedLetterCountConstraints \subseteq m_finishedLetterCountConstraints']_vars

\* C14 witness: the second batch, which derived again a constraint of each
\* kind that the first had finished, has been applied.
C14_Witness ==
    /\ pc = "guess"
    /\ feedbacksRead = 2
    /\ m_newPositionConstraints = {}
    /\ m_newLetterCountConstraints = {}
    /\ positionConstraints # {}
    /\ letterCountConstraints # {}
    /\ positionConstraints \subseteq m_finishedPositionConstraints
    /\ letterCountConstraints \subseteq m_finishedLetterCountConstraints

\* A word meets every constraint of the two sets.
MeetsAll(word, positions, counts) ==
    /\ \A c \in positions : (word[c.m_index + 1] = c.m_letter) = c.m_shouldMatch
    /\ \A c \in counts :
          LET n == Cardinality({ i \in 1..WORD_LENGTH : word[i] = c.m_letter })
          IN  IF c.m_min THEN n >= c.m_count ELSE n <= c.m_count

\* C15: processNewConstraints removes exactly the violators: a word is in the
\* pool afterwards iff it was in the pool and satisfies every New constraint
\* of both kinds; with New empty the pool is unchanged.
C15_ExactlyTheViolatorsRemoved ==
    [][LedgerProcess =>
         /\ m_possibleWords' =
                { w \in m_possibleWords :
                    MeetsAll(w, m_newPositionConstraints, m_newLetterCountConstraints) }
         /\ (m_newPositionConstraints = {} /\ m_newLetterCountConstraints = {}
                => m_possibleWords' = m_possibleWords)]_vars

\* C15 witness: batches have removed some of the words and left others.
C15_Witness ==
    /\ pc = "ledger"
    /\ m_possibleWords # {}
    /\ m_possibleWords # Vocabulary
    /\ m_newPositionConstraints = {}
    /\ m_newLetterCountConstraints = {}
    /\ m_finishedPositionConstraints # {}
    /\ m_finishedLetterCountConstraints # {}

\* C18: deriving the constraints of a round never fails an assertion of a
\* constraint's constructor: every position constraint has index < 5, every
\* letter-count constraint has count <= 4, and every letter is in A-Z.
C18_ConstructorAssertionsHold ==
    /\ assertFailed \notin {132, 133, 172, 173}
    /\ \A c \in positionConstraints : c.m_index < 5 /\ c.m_letter \in 65..90
    /\ \A c \in letterCountConstraints : c.m_count <= 4 /\ c.m_letter \in 65..90

\* C17: a round given well-formed feedback other than GGGGG goes on to apply
\* its constraints, and applying them removes at least the guessed word, so
\* the pool shrinks strictly and the word is never recommended again; hence
\* no session has more rounds than words in its dictionary plus one, the
\* dictionary holding at most MaxTokens words.
C17_EveryRoundRemovesTheGuess ==
    /\ [][/\ pc = "feedback"
             /\ current_feedback' \in WellFormedFeedback
             /\ current_feedback' # AllExact
             => pc' = "process"
          /\ pc = "process" =>
                /\ current_guess \in m_possibleWords
                /\ current_guess \notin m_possibleWords'
                /\ pc' = "guess"]_vars
    /\ [](numGuesses <= MaxTokens + 1)

\* ------------------------------------------------------------ rounds alone

\* Lines 361-367 run on any (guess, feedback) pair, whatever bestWord would
\* recommend: derive both sets, admit them, apply them.  The guess is any
\* known word; the feedback is the true feedback of the guess against a
\* known word, or all Misplaced, or all Absent.

RoundFeedbacks(guess) ==
    { TrueFeedback(guess, secret) : secret \in Vocabulary }
    \cup { [i \in 1..WORD_LENGTH |-> WRONG_SPOT], [i \in 1..WORD_LENGTH |-> NOT_THERE] }

RoundInit ==
    /\ in = <<>>
    /\ m_possibleWords = Vocabulary
    /\ m_finishedPositionConstraints = {}
    /\ m_finishedLetterCountConstraints = {}
    /\ m_newPositionConstraints = {}
    /\ m_newLetterCountConstraints = {}
    /\ numGuesses = 0
    /\ current_guess = <<>>
    /\ current_feedback = <<>>
    /\ positionConstraints = {}
    /\ letterCountConstraints = {}
    /\ feedbacksRead = 0
    /\ assertFailed = 0
    /\ pc = "round"

Round(guess, feedback) ==
    /\ pc = "round"
    /\ numGuesses < MaxRounds
    /\ numGuesses' = numGuesses + 1
    /\ feedbacksRead' = feedbacksRead + 1
    /\ current_guess' = guess
    /\ current_feedback' = feedback
    /\ LET ps   == generatePositionConstraints(guess, feedback)
           ls   == generateLetterCountConstraints(guess, feedback)
           newP == AdmitPositionConstraints(m_finishedPositionConstraints,
                                            m_newPositionConstraints, ps)
           newL == AdmitLetterCountConstraints(m_finishedLetterCountConstraints,
                                               m_newLetterCountConstraints, ls)
       IN  /\ positionConstraints' = ps
           /\ IF \E c \in ls : ~LetterCountConstraintAsserts(c)
              THEN /\ pc' = "aborted"
                   /\ assertFailed' = 172
                   /\ m_newPositionConstraints' = newP
                   /\ UNCHANGED << m_possibleWords, m_finishedPositionConstraints,
                                   m_finishedLetterCountConstraints,
                                   m_newLetterCountConstraints, letterCountConstraints >>
              ELSE /\ letterCountConstraints' = ls
                   /\ m_possibleWords' = Survivors(m_possibleWords, newP, newL)
                   /\ m_finishedPositionConstraints' =
                          MergeTarget(m_finishedPositionConstraints, newP)
                   /\ m_newPositionConstraints' =
                          MergeSource(m_finishedPositionConstraints, newP)
                   /\ IF m_newPositionConstraints' # {}
                      THEN /\ pc' = "aborted"
                           /\ assertFailed' = 309
                           /\ m_newLetterCountConstraints' = newL
                           /\ UNCHANGED m_finishedLetterCountConstraints
                      ELSE /\ m_finishedLetterCountConstraints' =
                                  MergeTarget(m_finishedLetterCountConstraints, newL)
                           /\ m_newLetterCountConstraints' =
                                  MergeSource(m_finishedLetterCountConstraints, newL)
                           /\ IF m_newLetterCountConstraints' # {}
                              THEN /\ pc' = "aborted"
                                   /\ assertFailed' = 311
                              ELSE /\ pc' = "round"
                                   /\ UNCHANGED assertFailed
    /\ UNCHANGED in

RoundNext == \E guess \in Vocabulary : \E feedback \in RoundFeedbacks(guess) : Round(guess, feedback)

RoundSpec == RoundInit /\ [][RoundNext]_vars

\* C16: processing a pair establishes its derived constraints in Finished;
\* processing again a pair that has been fully processed (the pair processed
\* just before, or any pair whose derived constraints are all Finished)
\* leaves New empty and the pool and the Finished sets as they were.
C16_ReprocessingChangesNothing ==
    [][pc = "round" =>
             /\ pc' = "round" =>
                   /\ positionConstraints' \subseteq m_finishedPositionConstraints'
                   /\ letterCountConstraints' \subseteq m_finishedLetterCountConstraints'
             /\ \/ current_guess' = current_guess /\ current_feedback' = current_feedback
                \/ /\ pc' = "round"
                   /\ positionConstraints' \subseteq m_finishedPositionConstraints
                   /\ letterCountConstraints' \subseteq m_finishedLetterCountConstraints
                => /\ pc' = "round"
                   /\ m_newPositionConstraints' = {}
                   /\ m_newLetterCountConstraints' = {}
                   /\ UNCHANGED << m_possibleWords, m_finishedPositionConstraints,
                                   m_finishedLetterCountConstraints >>]_vars

\* C16 witness: CRANE with G,W,Y,G,W has been processed twice (no other pair
\* derives a subset of its constraints), and Finished holds what one
\* processing leaves.
C16_Witness ==
    /\ pc = "round"
    /\ numGuesses = 2
    /\ current_guess = CRANE
    /\ current_feedback = <<RIGHT_SPOT, NOT_THERE, WRONG_SPOT, RIGHT_SPOT, NOT_THERE>>
    /\ m_finishedPositionConstraints = positionConstraints
    /\ m_finishedLetterCountConstraints = letterCountConstraints
    /\ m_newPositionConstraints = {}
    /\ m_newLetterCountConstraints = {}

====
